---- MODULE Spec2Model ----
(***************************************************************************)
(* Model of dim's catalog store (database/src/library.rs).                 *)
(*                                                                         *)
(* Library::get_one, Library::delete and InsertableLibrary::insert are     *)
(* async functions over a shared connection pool (crate::DbConnection).    *)
(* Every `.await` on a storage request is a suspension point, so each      *)
(* storage request is one atomic step of the calling task and the steps of *)
(* concurrent tasks interleave freely.                                     *)
(*                                                                         *)
(* `conn.begin()` checks a connection out of the pool and opens a          *)
(* transaction on it.  Every statement is then executed with `conn` (the   *)
(* pool) as its executor, not with the transaction: it runs on a further   *)
(* pooled connection in autocommit mode, and its effect is durable and     *)
(* visible to every other connection as soon as the statement returns.     *)
(* The transaction itself never carries a statement.                       *)
(***************************************************************************)
EXTENDS Integers, Sequences, FiniteSets, TLC

\* ------------------------------------------------------------------ bounds
NumTasks == 2       \* concurrent callers of the catalog store
PoolSize == 3       \* connections of the pool behind crate::DbConnection;
                    \* more than NumTasks, so that a statement finds a
                    \* connection while every task holds a transaction
MaxLibs == 2        \* library rows ever inserted (caps the id counter)
MaxLocs == 2        \* longest `locations` vector of an InsertableLibrary

Tasks == 1..NumTasks
Ids == 1..MaxLibs

\* --------------------------------------------------------------- MediaType
MediaType == {"Movie", "Tv", "Episode"}

\* impl fmt::Display for MediaType
Display(mt) ==
    CASE mt = "Movie"   -> "movie"
      [] mt = "Tv"      -> "tv"
      [] mt = "Episode" -> "episode"

\* #[sqlx(rename_all = "lowercase")]: the value bound to a statement parameter
\* (mutation: rename_all = "UPPERCASE")
MediaTypeEncodeUpper(mt) ==
    CASE mt = "Movie"   -> "MOVIE"
      [] mt = "Tv"      -> "TV"
      [] mt = "Episode" -> "EPISODE"

MediaTypeEncode(mt) ==
    CASE mt = "Movie"   -> "movie"
      [] mt = "Tv"      -> "tv"
      [] mt = "Episode" -> "episode"

\* #[sqlx(rename_all = "lowercase")]: the value read back from a column;
\* "DecodeError" stands for the Err of an unrecognised token
MediaTypeDecode(token) ==
    CASE token = "movie"   -> "Movie"
      [] token = "tv"      -> "Tv"
      [] token = "episode" -> "Episode"
      [] OTHER             -> "DecodeError"

\* impl Default for MediaType
MediaTypeDefault == "Movie"

\* ------------------------------------------------------------------ inputs
Path(i) == IF i % 2 = 1 THEN "/media/movies" ELSE "/media/tv"

Locations(n) == [i \in 1..n |-> Path(i)]

\* struct InsertableLibrary
MkInsertable(name, locations, media_type) ==
    [name |-> name, locations |-> locations, media_type |-> media_type]

\* the libraries callers insert: every length of `locations` for a library of
\* the default media type and for one of another type, and one of the third
InsertableLibrary ==
    { MkInsertable("Movies", Locations(k), "Movie") : k \in 0..MaxLocs }
        \cup { MkInsertable("Shows", Locations(k), "Tv") : k \in 0..MaxLocs }
        \cup { MkInsertable("Extras", Locations(1), "Episode") }

NoInsertable == MkInsertable("", <<>>, MediaTypeDefault)

\* struct Library
MkLibrary(id, name, locations, media_type) ==
    [id |-> id, name |-> name, locations |-> locations, media_type |-> media_type]

NoLibrary == MkLibrary(0, "", <<>>, MediaTypeDefault)

NoRow == [id |-> 0, name |-> "", media_type |-> ""]

\* Result<_, DatabaseError>: status is "Ok" or the error kind; num carries an
\* i64 / usize payload, library a Library payload
MkResult(status, num, lib) ==
    [status |-> status, num |-> num, library |-> lib, rows |-> << >>]

\* the Vec a listing operation returns (get_all, get_locations)
MkRowsResult(status, rows) ==
    [status |-> status, num |-> 0, library |-> NoLibrary, rows |-> rows]

NoResult == MkResult("None", 0, NoLibrary)

\* no MediaType value / no wire token at hand
NoMedia == "None"
NoToken == "None"

\* the tokens a column or a request can carry: the three of the enum and
\* tokens the enum does not name
WireTokens == { "movie", "tv", "episode", "Movie", "TV", "music", "" }

\* ------------------------------------------------------------------ events
\* enum PushEventType (unit variants)
PushEventType ==
    { "EventNewCard", "EventRemoveCard", "EventNewLibrary", "EventRemoveLibrary" }

\* Message::id is an i32: the extremes of the type and values in between
MessageIds == { -2147483647 - 1, -1, 0, 1, 7, 2147483647 }

\* struct Message { id, event_type }
MkMessage(id, event_type) == [id |-> id, event_type |-> event_type]

NoMessage == MkMessage(0, "None")
NoPayload == << >>

\* #[serde(tag = "type")] on a unit variant: the map { "type": <variant name> }
TaggedVariant(event_type) == << << "type", event_type >> >>

\* serde_json::to_string(&self).unwrap() of the derived Serialize: the JSON
\* object as its sequence of << key, value >> members; #[serde(flatten)]
\* splices the members of event_type into the object of the Message
\* (mutation: event_type is not flattened but nested under its field name)
SerializeNested(msg) ==
    << << "id", msg.id >>, << "event_type", TaggedVariant(msg.event_type) >> >>

Serialize(msg) == << << "id", msg.id >> >> \o TaggedVariant(msg.event_type)

\* the keys of a JSON object, and the value of its member key ("absent"
\* when there is none)
Keys(obj) == { obj[i][1] : i \in 1..Len(obj) }
Member(obj, key) ==
    IF key \in Keys(obj)
      THEN obj[CHOOSE i \in 1..Len(obj) : obj[i][1] = key][2]
      ELSE "absent"

\* ------------------------------------------------------------------- state
VARIABLES
    library,        \* table library: id -> [name, media_type]
    indexed_paths,  \* table indexed_paths: sequence of [location, library_id]
    rowid_seq,      \* the store's id counter for table library
    idle_conns,     \* pooled connections not checked out
    pc,             \* task -> position in the operation it runs
    op,             \* task -> the call it runs and its arguments
    tx,             \* task -> TRUE while it holds the transaction of conn.begin()
    lib_id,         \* task -> insert's local lib_id (0 before it is assigned)
    next_loc,       \* task -> insert's position in `for location in &self.locations`
    row,            \* task -> get_one's local `library` (the fetched row)
    result,         \* task -> the value the finished call returns
    returned,       \* history: the [id, lib] of every insert that returned Ok
    removals,       \* history: id -> sum of the counts returned by delete(id)
    failed,         \* history: task -> the backend failed a request of its call
    media_in,       \* codec: the MediaType value handed to the encoder
    wire,           \* codec: the wire token (encoded, or received from a row)
    media_out,      \* codec: what decoding the token gave
    message,        \* events: the Message to send
    payload         \* events: the string Message::serialize returned for it

vars == << library, indexed_paths, rowid_seq, idle_conns, pc, op, tx, lib_id,
           next_loc, row, result, returned, removals, failed,
           media_in, wire, media_out, message, payload >>

store == << library, indexed_paths, rowid_seq >>
history == << returned, removals >>
codec == << media_in, wire, media_out >>
events == << message, payload >>
pure == << codec, events >>

\* ---------------------------------------------------- the storage backend
\* The schema of the two tables is not among the sources; the backend below
\* is the store contract of spec sections 3, 4.2 and 6: ids are assigned by
\* the store and never reused, indexed_paths.library_id REFERENCES
\* library(id), and removing a library row removes its location rows.

\* the id the store generates for the next library row
StoreNextId(seq) == seq + 1

\* REFERENCES library(id): a location row needs its library row
\* (mutation: the constraint is not enforced)
ForeignKeyOff(lib, library_id) == TRUE

ForeignKeyHolds(lib, library_id) == library_id \in DOMAIN lib

\* cascading removal of the location rows of the removed library rows
CascadeDelete(paths, removed) ==
    SelectSeq(paths, LAMBDA r : r.library_id \notin removed)

\* ------------------------------------------------------------- statements
\* "SELECT id, name, media_type FROM library WHERE id = ?" (get_one)
\* (mutation: the comparison inverted)
SelectLibraryBug(lib, id) ==
    { [id |-> i, name |-> lib[i].name, media_type |-> lib[i].media_type] :
        i \in { j \in DOMAIN lib : j # id } }

SelectLibrary(lib, id) ==
    { [id |-> i, name |-> lib[i].name, media_type |-> lib[i].media_type] :
        i \in { j \in DOMAIN lib : j = id } }

ProjectLocation(rows) == [i \in 1..Len(rows) |-> rows[i].location]

\* "SELECT location FROM indexed_paths WHERE library_id = ?"
SelectLocations(paths, id) ==
    ProjectLocation(SelectSeq(paths, LAMBDA r : r.library_id = id))

\* the ids of a table in ascending order (the order of a table scan)
Ascending(S) ==
    CHOOSE s \in [1..Cardinality(S) -> S] :
        \A i, j \in 1..Cardinality(S) : i < j => s[i] < s[j]

\* what fetch_all gives: Ok(rows) or Err
FetchOk(rows) == [ok |-> TRUE, rows |-> rows]
FetchErr == [ok |-> FALSE, rows |-> << >>]

\* SELECT id, name, media_type as "media_type: MediaType" FROM library:
\* every row with its media_type decoded; a token that does not decode
\* fails the fetch
SelectAll(lib) ==
    LET ids  == Ascending(DOMAIN lib)
        rows == [k \in 1..Len(ids) |->
                   [id |-> ids[k], name |-> lib[ids[k]].name,
                    media_type |-> MediaTypeDecode(lib[ids[k]].media_type)]]
    IN  IF \E k \in 1..Len(rows) : rows[k].media_type = "DecodeError"
          THEN FetchErr
          ELSE FetchOk(rows)

\* .unwrap_or_default() of get_all
UnwrapOrDefault(fetched) == IF fetched.ok THEN fetched.rows ELSE << >>

\* get_all's .map(|x| Self { id, name, media_type, locations: vec![] })
\* (mutation: the stored media type replaced by the default)
GetAllEntryBug(x) == MkLibrary(x.id, x.name, << >>, MediaTypeDefault)

GetAllEntry(x) == MkLibrary(x.id, x.name, << >>, x.media_type)

GetAllCollect(rows) == [k \in 1..Len(rows) |-> GetAllEntry(rows[k])]

\* the Vec<Self> get_all returns for the outcome of its fetch_all
\* (mutation: the failure of the fetch is handed to the caller)
GetAllReturnBug(fetched) ==
    IF fetched.ok
      THEN MkRowsResult("Ok", GetAllCollect(fetched.rows))
      ELSE MkRowsResult("StorageError", << >>)

GetAllReturn(fetched) ==
    MkRowsResult("Ok", GetAllCollect(UnwrapOrDefault(fetched)))

\* get_locations' SELECT location FROM indexed_paths WHERE library_id = ?
\* (mutation: the WHERE clause dropped)
GetLocationsRowsBug(paths, id) == ProjectLocation(paths)

GetLocationsRows(paths, id) == SelectLocations(paths, id)

\* "DELETE FROM library WHERE id = ?": the ids of the rows it removes
\* (mutation: the comparison inverted)
DeleteWhereBug(lib, id_to_del) == { i \in DOMAIN lib : i # id_to_del }

DeleteWhere(lib, id_to_del) == { i \in DOMAIN lib : i = id_to_del }

\* "INSERT INTO library (name, media_type) VALUES ($1, $2)": the new row
LibraryRow(self) ==
    [name |-> self.name, media_type |-> MediaTypeEncode(self.media_type)]

\* "INSERT into indexed_paths(location, library_id) VALUES ($1, $2)"
\* (mutation: the row is bound to a fixed library id)
PathRowBug(location, id) == [location |-> location, library_id |-> 1]

PathRow(location, id) == [location |-> location, library_id |-> id]

\* the query result of an execute(): rows affected and generated id
ExecResult(n, id) == [rows_affected |-> n, last_insert_rowid |-> id]

\* insert's `.last_insert_rowid()` on the result of its own INSERT
\* (mutation: the wrong field of the query result)
InsertedIdBug(res) == res.rows_affected

InsertedId(res) == res.last_insert_rowid

\* delete's `.rows_affected() as usize`
\* (mutation: the wrong field of the query result)
DeletedCountBug(res) == res.last_insert_rowid

DeletedCount(res) == res.rows_affected

\* get_one's Ok(Self { id, name, media_type, locations })
\* (mutation: the stored media type replaced by the default)
GetOneLibraryBug(r, locations) ==
    MkLibrary(r.id, r.name, locations, MediaTypeDefault)

GetOneLibrary(r, locations) ==
    MkLibrary(r.id, r.name, locations, MediaTypeDecode(r.media_type))

\* ----------------------------------------------------------------- history
ReturnedIds == { returned[i].id : i \in 1..Len(returned) }

\* the InsertableLibrary of the (first) successful insert that returned id
ReturnedLib(id) ==
    returned[CHOOSE i \in 1..Len(returned) : returned[i].id = id].self

\* id names a library that an insert has returned and no delete has removed
Live(id) == id \in ReturnedIds /\ removals[id] = 0

\* -------------------------------------------------------------------- Init
\* the state after construction with a pool of k connections
InitWith(k) ==
    /\ library = << >>
    /\ indexed_paths = << >>
    /\ rowid_seq = 0
    /\ idle_conns = k
    /\ pc = [p \in Tasks |-> "idle"]
    /\ op = [p \in Tasks |-> [kind |-> "none", id |-> 0, self |-> NoInsertable,
                              live |-> FALSE]]
    /\ tx = [p \in Tasks |-> FALSE]
    /\ lib_id = [p \in Tasks |-> 0]
    /\ next_loc = [p \in Tasks |-> 0]
    /\ row = [p \in Tasks |-> NoRow]
    /\ result = [p \in Tasks |-> NoResult]
    /\ returned = << >>
    /\ removals = [i \in Ids |-> 0]
    /\ failed = [p \in Tasks |-> FALSE]
    /\ media_in = NoMedia
    /\ wire = NoToken
    /\ media_out = NoMedia
    /\ message = NoMessage
    /\ payload = NoPayload

Init == InitWith(PoolSize)

locals == << lib_id, next_loc, row >>

\* (mutation: the transaction guard outlives the call)
FinishLeak(p, res) ==
    /\ pc' = [pc EXCEPT ![p] = "done"]
    /\ result' = [result EXCEPT ![p] = res]
    /\ UNCHANGED << tx, idle_conns >>

\* the call returns res: the locals are dropped, and with them the
\* transaction guard, which gives its connection back to the pool
Finish(p, res) ==
    /\ pc' = [pc EXCEPT ![p] = "done"]
    /\ result' = [result EXCEPT ![p] = res]
    /\ tx' = [tx EXCEPT ![p] = FALSE]
    /\ idle_conns' = IF tx[p] THEN idle_conns + 1 ELSE idle_conns

\* a statement executed on the pool needs a connection of its own for the
\* duration of the statement
PoolReady == idle_conns >= 1

\* Err(DatabaseError): "NotFound" is fetch_one's missing row; "StorageError"
\* a failed storage request; "ForeignKey" the storage error of a statement
\* the store rejects for its REFERENCES constraint
Err(kind) == MkResult(kind, 0, NoLibrary)

\* ------------------------------------------------------------------- calls
InsertsPending == { q \in Tasks : pc[q] \in {"insert_begin", "insert_library"} }

\* a task that is idle, or whose previous call has returned, can make its
\* next call
Callable(p) == pc[p] \in {"idle", "done"}

\* the call starts with fresh locals, at its first storage request
Invoke(p, kind, id, self, first) ==
    /\ pc' = [pc EXCEPT ![p] = first]
    /\ op' = [op EXCEPT ![p] = [kind |-> kind, id |-> id, self |-> self,
                                live |-> Live(id)]]
    /\ lib_id' = [lib_id EXCEPT ![p] = 0]
    /\ next_loc' = [next_loc EXCEPT ![p] = 0]
    /\ row' = [row EXCEPT ![p] = NoRow]
    /\ result' = [result EXCEPT ![p] = NoResult]
    /\ failed' = [failed EXCEPT ![p] = FALSE]
    /\ UNCHANGED << store, history, idle_conns, tx, pure >>

GetOneCall(p, id) ==
    /\ Callable(p)
    /\ Invoke(p, "get_one", id, NoInsertable, "get_one_begin")

DeleteCall(p, id) ==
    /\ Callable(p)
    /\ Invoke(p, "delete", id, NoInsertable, "delete_execute")

\* the number of inserts is capped: MaxLibs bounds the store's id counter
InsertCall(p, self) ==
    /\ Callable(p)
    /\ rowid_seq + Cardinality(InsertsPending) < MaxLibs
    /\ Invoke(p, "insert", 0, self, "insert_begin")

\* ----------------------------------------------------------------- get_one
\* let _tx = conn.begin().await?;
GetOneBegin(p) ==
    /\ pc[p] = "get_one_begin"
    /\ PoolReady
    /\ idle_conns' = idle_conns - 1
    /\ tx' = [tx EXCEPT ![p] = TRUE]
    /\ pc' = [pc EXCEPT ![p] = "get_one_library"]
    /\ UNCHANGED << store, history, op, locals, result, failed, pure >>

\* let library = sqlx::query!(SELECT ... WHERE id = ?).fetch_one(conn).await?;
GetOneFetchLibrary(p) ==
    /\ pc[p] = "get_one_library"
    /\ PoolReady
    /\ LET found == SelectLibrary(library, op[p].id) IN
         IF found = {}
           THEN /\ Finish(p, Err("NotFound"))
                /\ UNCHANGED row
           ELSE /\ row' = [row EXCEPT ![p] = CHOOSE r \in found : TRUE]
                /\ pc' = [pc EXCEPT ![p] = "get_one_locations"]
                /\ UNCHANGED << idle_conns, tx, result >>
    /\ UNCHANGED << store, history, op, lib_id, next_loc, failed, pure >>

\* let locations = sqlx::query_scalar!(SELECT location ...).fetch_all(conn).await?;
\* Ok(Self { .. })
GetOneFetchLocations(p) ==
    /\ pc[p] = "get_one_locations"
    /\ PoolReady
    /\ Finish(p, MkResult("Ok", 0,
                 GetOneLibrary(row[p], SelectLocations(indexed_paths, op[p].id))))
    /\ UNCHANGED << store, history, op, locals, failed, pure >>

\* ------------------------------------------------------------------ delete
\* sqlx::query!("DELETE FROM library WHERE id = ?").execute(conn).await?
\*     .rows_affected() as usize
DeleteExecute(p) ==
    /\ pc[p] = "delete_execute"
    /\ PoolReady
    /\ LET removed == DeleteWhere(library, op[p].id)
           res     == ExecResult(Cardinality(removed), 0) IN
         /\ library' = [i \in DOMAIN library \ removed |-> library[i]]
         /\ indexed_paths' = CascadeDelete(indexed_paths, removed)
         /\ removals' = [removals EXCEPT ![op[p].id] = @ + DeletedCount(res)]
         /\ Finish(p, MkResult("Ok", DeletedCount(res), NoLibrary))
    /\ UNCHANGED << rowid_seq, returned, op, locals, failed, pure >>

\* ------------------------------------------------------------------ insert
\* let tx = conn.begin().await?;
InsertBegin(p) ==
    /\ pc[p] = "insert_begin"
    /\ PoolReady
    /\ idle_conns' = idle_conns - 1
    /\ tx' = [tx EXCEPT ![p] = TRUE]
    /\ pc' = [pc EXCEPT ![p] = "insert_library"]
    /\ UNCHANGED << store, history, op, locals, result, failed, pure >>

\* where insert's loop stands once next_loc is n
InsertLoopPc(self, n) ==
    IF n <= Len(self.locations) THEN "insert_location" ELSE "insert_commit"

\* let lib_id = sqlx::query!(INSERT INTO library ...).execute(conn).await?
\*     .last_insert_rowid();
InsertLibraryRow(p) ==
    /\ pc[p] = "insert_library"
    /\ PoolReady
    /\ LET id  == StoreNextId(rowid_seq)
           res == ExecResult(1, id) IN
         /\ rowid_seq' = id
         /\ library' = [i \in DOMAIN library \cup {id} |->
                          IF i = id THEN LibraryRow(op[p].self) ELSE library[i]]
         /\ lib_id' = [lib_id EXCEPT ![p] = InsertedId(res)]
    /\ next_loc' = [next_loc EXCEPT ![p] = 1]
    /\ pc' = [pc EXCEPT ![p] = InsertLoopPc(op[p].self, 1)]
    /\ UNCHANGED << indexed_paths, history, idle_conns, tx, op, row, result, failed, pure >>

\* for location in &self.locations {
\*     sqlx::query!(INSERT into indexed_paths ...).execute(conn).await?; }
InsertLocation(p) ==
    /\ pc[p] = "insert_location"
    /\ PoolReady
    /\ LET new == PathRow(op[p].self.locations[next_loc[p]], lib_id[p]) IN
         IF ForeignKeyHolds(library, new.library_id)
           THEN /\ indexed_paths' = Append(indexed_paths, new)
                /\ next_loc' = [next_loc EXCEPT ![p] = next_loc[p] + 1]
                /\ pc' = [pc EXCEPT ![p] = InsertLoopPc(op[p].self, next_loc[p] + 1)]
                /\ UNCHANGED << idle_conns, tx, result >>
           ELSE /\ Finish(p, Err("ForeignKey"))
                /\ UNCHANGED << indexed_paths, next_loc >>
    /\ UNCHANGED << library, rowid_seq, history, op, lib_id, row, failed, pure >>

\* tx.commit().await?; Ok(lib_id)
InsertCommit(p) ==
    /\ pc[p] = "insert_commit"
    /\ tx[p]
    /\ returned' = Append(returned, [id |-> lib_id[p], self |-> op[p].self])
    /\ Finish(p, MkResult("Ok", lib_id[p], NoLibrary))
    /\ UNCHANGED << store, removals, op, locals, failed, pure >>

\* ----------------------------------------------------------------- get_all
GetAllCall(p) ==
    /\ Callable(p)
    /\ Invoke(p, "get_all", 0, NoInsertable, "get_all_execute")

\* sqlx::query!(SELECT ... FROM library).fetch_all(conn).await
\*     .unwrap_or_default().into_iter().map(..).collect()
GetAllExecute(p) ==
    /\ pc[p] = "get_all_execute"
    /\ PoolReady
    /\ Finish(p, GetAllReturn(SelectAll(library)))
    /\ UNCHANGED << store, history, op, locals, failed, pure >>

\* the same with a backend that fails the read
GetAllFail(p) ==
    /\ pc[p] = "get_all_execute"
    /\ Finish(p, GetAllReturn(FetchErr))
    /\ failed' = [failed EXCEPT ![p] = TRUE]
    /\ UNCHANGED << store, history, op, locals, pure >>

\* ----------------------------------------------------------- get_locations
GetLocationsCall(p, id) ==
    /\ Callable(p)
    /\ Invoke(p, "get_locations", id, NoInsertable, "get_locations_execute")

\* Ok(sqlx::query_scalar!(SELECT location ...).fetch_all(conn).await?)
GetLocationsExecute(p) ==
    /\ pc[p] = "get_locations_execute"
    /\ PoolReady
    /\ Finish(p, MkRowsResult("Ok", GetLocationsRows(indexed_paths, op[p].id)))
    /\ UNCHANGED << store, history, op, locals, failed, pure >>

\* ------------------------------------------------------------- environment
InFlight == { "get_one_begin", "get_one_library", "get_one_locations",
              "delete_execute",
              "insert_begin", "insert_library", "insert_location", "insert_commit",
              "get_all_execute", "get_locations_execute" }

\* the await points whose failure `?` hands to the caller: all but get_all's
Propagating == InFlight \ { "get_all_execute" }

\* the storage request the task is about to issue fails (connectivity, pool
\* timeout, a rejected statement): `?` returns the error to the caller
StorageFail(p) ==
    /\ pc[p] \in Propagating
    /\ Finish(p, Err("StorageError"))
    /\ failed' = [failed EXCEPT ![p] = TRUE]
    /\ UNCHANGED << store, history, op, locals, pure >>

\* -------------------------------------------------------------------- Next
Next ==
    \/ \E p \in Tasks, id \in Ids : GetOneCall(p, id)
    \/ \E p \in Tasks, id \in Ids : DeleteCall(p, id)
    \/ \E p \in Tasks, self \in InsertableLibrary : InsertCall(p, self)
    \/ \E p \in Tasks : GetOneBegin(p)
    \/ \E p \in Tasks : GetOneFetchLibrary(p)
    \/ \E p \in Tasks : GetOneFetchLocations(p)
    \/ \E p \in Tasks : DeleteExecute(p)
    \/ \E p \in Tasks : InsertBegin(p)
    \/ \E p \in Tasks : InsertLibraryRow(p)
    \/ \E p \in Tasks : InsertLocation(p)
    \/ \E p \in Tasks : InsertCommit(p)
    \/ \E p \in Tasks : StorageFail(p)

Spec == Init /\ [][Next]_vars

\* Sequential execution: a call is made only when no other call is running.
Quiet == \A q \in Tasks : pc[q] \notin InFlight

SeqGetOneCall(p, id) == Quiet /\ GetOneCall(p, id)

SeqDeleteCall(p, id) == Quiet /\ DeleteCall(p, id)

SeqInsertCall(p, self) == Quiet /\ InsertCall(p, self)

NextSeq ==
    \/ \E p \in Tasks, id \in Ids : SeqGetOneCall(p, id)
    \/ \E p \in Tasks, id \in Ids : SeqDeleteCall(p, id)
    \/ \E p \in Tasks, self \in InsertableLibrary : SeqInsertCall(p, self)
    \/ \E p \in Tasks : GetOneBegin(p)
    \/ \E p \in Tasks : GetOneFetchLibrary(p)
    \/ \E p \in Tasks : GetOneFetchLocations(p)
    \/ \E p \in Tasks : DeleteExecute(p)
    \/ \E p \in Tasks : InsertBegin(p)
    \/ \E p \in Tasks : InsertLibraryRow(p)
    \/ \E p \in Tasks : InsertLocation(p)
    \/ \E p \in Tasks : InsertCommit(p)
    \/ \E p \in Tasks : StorageFail(p)

SpecSeq == Init /\ [][NextSeq]_vars

\* The five operations of the catalog store, called one after the other.
SeqGetAllCall(p) == Quiet /\ GetAllCall(p)

SeqGetLocationsCall(p, id) == Quiet /\ GetLocationsCall(p, id)

NextAll ==
    \/ \E p \in Tasks : SeqGetAllCall(p)
    \/ \E p \in Tasks, id \in Ids : SeqGetLocationsCall(p, id)
    \/ \E p \in Tasks, id \in Ids : SeqGetOneCall(p, id)
    \/ \E p \in Tasks, id \in Ids : SeqDeleteCall(p, id)
    \/ \E p \in Tasks, self \in InsertableLibrary : SeqInsertCall(p, self)
    \/ \E p \in Tasks : GetAllExecute(p)
    \/ \E p \in Tasks : GetAllFail(p)
    \/ \E p \in Tasks : GetLocationsExecute(p)
    \/ \E p \in Tasks : GetOneBegin(p)
    \/ \E p \in Tasks : GetOneFetchLibrary(p)
    \/ \E p \in Tasks : GetOneFetchLocations(p)
    \/ \E p \in Tasks : DeleteExecute(p)
    \/ \E p \in Tasks : InsertBegin(p)
    \/ \E p \in Tasks : InsertLibraryRow(p)
    \/ \E p \in Tasks : InsertLocation(p)
    \/ \E p \in Tasks : InsertCommit(p)
    \/ \E p \in Tasks : StorageFail(p)

SpecAll == Init /\ [][NextAll]_vars

\* The pure functions: the MediaType codec and Message::serialize, applied
\* to inputs drawn from MediaType, WireTokens, MessageIds and PushEventType.
catalog == << store, history, failed, idle_conns, pc, op, tx, locals, result >>

\* a MediaType value is bound to a statement parameter (or serialized)
EncodeMediaType(mt) ==
    /\ media_in' = mt
    /\ wire' = MediaTypeEncode(mt)
    /\ media_out' = NoMedia
    /\ UNCHANGED << catalog, events >>

\* a token arrives from a column (or a request body)
ReceiveToken(t) ==
    /\ media_in' = NoMedia
    /\ wire' = t
    /\ media_out' = NoMedia
    /\ UNCHANGED << catalog, events >>

\* the token at hand is decoded into a MediaType
DecodeMediaType ==
    /\ wire # NoToken
    /\ media_out = NoMedia
    /\ media_out' = MediaTypeDecode(wire)
    /\ UNCHANGED << catalog, media_in, wire, events >>

\* Message { id, event_type }
NewMessage(id, event_type) ==
    /\ message' = MkMessage(id, event_type)
    /\ payload' = NoPayload
    /\ UNCHANGED << catalog, codec >>

\* fn serialize(&self) -> String
SerializeMessage ==
    /\ message # NoMessage
    /\ payload = NoPayload
    /\ payload' = Serialize(message)
    /\ UNCHANGED << catalog, codec, message >>

NextPure ==
    \/ \E mt \in MediaType : EncodeMediaType(mt)
    \/ \E t \in WireTokens : ReceiveToken(t)
    \/ DecodeMediaType
    \/ \E id \in MessageIds, et \in PushEventType : NewMessage(id, et)
    \/ SerializeMessage

SpecPure == Init /\ [][NextPure]_vars

\* The catalog store on a pool of any size from 1 to PoolSize and a backend
\* that always answers: no statement fails.
InitPool == \E k \in 1..PoolSize : InitWith(k)

NextPool ==
    \/ \E p \in Tasks, id \in Ids : GetOneCall(p, id)
    \/ \E p \in Tasks, id \in Ids : DeleteCall(p, id)
    \/ \E p \in Tasks, self \in InsertableLibrary : InsertCall(p, self)
    \/ \E p \in Tasks : GetOneBegin(p)
    \/ \E p \in Tasks : GetOneFetchLibrary(p)
    \/ \E p \in Tasks : GetOneFetchLocations(p)
    \/ \E p \in Tasks : DeleteExecute(p)
    \/ \E p \in Tasks : InsertBegin(p)
    \/ \E p \in Tasks : InsertLibraryRow(p)
    \/ \E p \in Tasks : InsertLocation(p)
    \/ \E p \in Tasks : InsertCommit(p)

SpecPool == InitPool /\ [][NextPool]_vars

\* the positions at which get_one and insert, holding their transaction,
\* run a statement on `conn`, the pool: each needs a further connection
StatementPcs ==
    { "get_one_library", "get_one_locations", "insert_library", "insert_location" }

\* ------------------------------------------------------------------ claims
\* the step in which task p's call of the given kind returns
Completes(p, kind) ==
    /\ op[p].kind = kind
    /\ pc[p] \in InFlight
    /\ pc'[p] = "done"

Finished(p, kind) == pc[p] = "done" /\ op[p].kind = kind

Occurrences(s, x) == Cardinality({ i \in 1..Len(s) : s[i] = x })

SameMultiset(s, t) ==
    /\ Len(s) = Len(t)
    /\ \A i \in 1..Len(s) : Occurrences(s, s[i]) = Occurrences(t, s[i])

\* C1 (atomic insert): when an insert returns Ok(id) the store holds the
\* library row id and exactly the N supplied locations bound to it; when it
\* returns an error the store holds no library row and no location row
\* written by that call.
C1_AtomicInsert ==
    [][\A p \in Tasks :
         Completes(p, "insert") =>
           IF result'[p].status = "Ok"
             THEN /\ result'[p].num \in DOMAIN library'
                  /\ SameMultiset(SelectLocations(indexed_paths', result'[p].num),
                                  op[p].self.locations)
             ELSE \/ lib_id[p] = 0
                  \/ /\ lib_id[p] \notin DOMAIN library'
                     /\ SelectLocations(indexed_paths', lib_id[p]) = << >>]_vars

\* C2 (insert invisible until complete): a get_one that returns the library
\* of an insert that is still running returns all N of its locations.
C2_InsertInvisibleUntilComplete ==
    \A g \in Tasks, i \in Tasks :
        ( /\ Finished(g, "get_one")
          /\ result[g].status = "Ok"
          /\ op[i].kind = "insert"
          /\ pc[i] \in InFlight
          /\ lib_id[i] = result[g].library.id )
        => Len(result[g].library.locations) = Len(op[i].self.locations)

\* C3 (get_one is a single consistent read): a get_one called on a library
\* that an insert has returned and that was not deleted at the call either
\* fails or returns the library with the full location set it was inserted
\* with, whatever a concurrent delete does.
C3_GetOneConsistentRead ==
    \A g \in Tasks :
        ( /\ Finished(g, "get_one")
          /\ op[g].live
          /\ result[g].status = "Ok" )
        => SameMultiset(result[g].library.locations,
                        ReturnedLib(op[g].id).locations)

\* C4 (cascading delete): once a delete of id has returned a count of 1, the
\* store holds no library row with that id and no location row bound to it:
\* get_one's row query finds nothing and get_locations' query is empty.
C4_CascadingDelete ==
    \A id \in Ids :
        removals[id] >= 1 =>
            /\ id \notin DOMAIN library
            /\ SelectLibrary(library, id) = {}
            /\ SelectLocations(indexed_paths, id) = << >>

\* C4 witness: a library inserted with N > 0 locations has been deleted.
C4_Witness ==
    \E id \in Ids :
        /\ removals[id] >= 1
        /\ id \in ReturnedIds
        /\ Len(ReturnedLib(id).locations) > 0

\* C5 (no orphaned locations): every location row is bound to the id of a
\* library row that exists.
C5_NoOrphanedLocations ==
    \A i \in 1..Len(indexed_paths) :
        indexed_paths[i].library_id \in DOMAIN library

\* C5 witness: an insert's library row was deleted by another task before
\* the insert had issued all its location writes, its next location write
\* was rejected, and other location rows are in the store.
C5_Witness ==
    \E p \in Tasks :
        /\ Finished(p, "insert")
        /\ result[p].status = "ForeignKey"
        /\ lib_id[p] # 0
        /\ removals[lib_id[p]] >= 1
        /\ next_loc[p] <= Len(op[p].self.locations)
        /\ indexed_paths # << >>

\* C6 (ids are never reused): the ids returned by successful inserts are
\* pairwise different, deleted libraries included.
C6_IdsNeverReused ==
    \A i \in 1..Len(returned), j \in 1..Len(returned) :
        i # j => returned[i].id # returned[j].id

\* C6 witness: a second insert has returned after the library of the first
\* one was deleted.
C6_Witness ==
    /\ Len(returned) >= 2
    /\ removals[returned[1].id] >= 1

\* C7 (two deletes of one id race safely): when two deletes of the same
\* library, both called while it existed, have both returned without a
\* storage failure, exactly one delete call has removed the row (so the two
\* do not both return 1, and one of them returns 1 unless a third caller's
\* delete did), and the row and its locations are gone.
C7_ConcurrentDeletes ==
    \A p \in Tasks, q \in Tasks :
        ( /\ p # q
          /\ Finished(p, "delete") /\ Finished(q, "delete")
          /\ op[p].id = op[q].id
          /\ op[p].live /\ op[q].live
          /\ result[p].status = "Ok" /\ result[q].status = "Ok" )
        => /\ result[p].num + result[q].num <= 1
           /\ removals[op[p].id] = 1
           /\ op[p].id \notin DOMAIN library
           /\ SelectLocations(indexed_paths, op[p].id) = << >>

\* C7 witness: two such deletes of a library with locations have returned,
\* one with 1 and the other with 0.
C7_Witness ==
    \E p \in Tasks, q \in Tasks :
        /\ p # q
        /\ Finished(p, "delete") /\ Finished(q, "delete")
        /\ op[p].id = op[q].id
        /\ op[p].live /\ op[q].live
        /\ result[p].num = 1 /\ result[q].num = 0
        /\ result[q].status = "Ok"
        /\ Len(ReturnedLib(op[p].id).locations) > 0

\* C8 (delete count): a delete never fails with NotFound; when its statement
\* runs it returns 1 if a library row with the id existed and 0 otherwise,
\* and in the latter case the store is unchanged.
C8_DeleteCount ==
    [][\A p \in Tasks :
         Completes(p, "delete") =>
           /\ result'[p].status \in {"Ok", "StorageError"}
           /\ result'[p].status = "Ok" =>
                /\ result'[p].num = IF op[p].id \in DOMAIN library THEN 1 ELSE 0
                /\ op[p].id \notin DOMAIN library'
                /\ op[p].id \notin DOMAIN library => store' = store]_vars

\* C8 witness: deletes have returned 0 for an id whose library an earlier
\* delete removed (which returned 1) and 0 for an id never inserted.
C8_Witness ==
    \E p \in Tasks, q \in Tasks :
        /\ Finished(p, "delete") /\ result[p].status = "Ok" /\ result[p].num = 0
        /\ removals[op[p].id] = 1
        /\ Finished(q, "delete") /\ result[q].status = "Ok" /\ result[q].num = 0
        /\ op[q].id > rowid_seq

\* C9 (consistent get_one, sequential execution): a get_one that returns a
\* library returns one that a successful insert produced and no delete has
\* removed, with as many locations as that insert committed.
C9_SequentialGetOne ==
    [][\A g \in Tasks :
         (Completes(g, "get_one") /\ result'[g].status = "Ok") =>
            /\ Live(op[g].id)
            /\ Len(result'[g].library.locations)
                 = Len(ReturnedLib(op[g].id).locations)]_vars

\* C10 (insert / get_one round trip): a get_one called after the insert of
\* its id has returned, the id not deleted, does not fail with NotFound, and
\* what it returns has that id, the inserted name, the inserted media type
\* and the inserted locations as a multiset.
C10_InsertGetOneRoundTrip ==
    \A g \in Tasks :
        ( /\ Finished(g, "get_one")
          /\ op[g].live
          /\ removals[op[g].id] = 0 )
        => /\ result[g].status \in {"Ok", "StorageError"}
           /\ result[g].status = "Ok" =>
                /\ result[g].library.id = op[g].id
                /\ result[g].library.name = ReturnedLib(op[g].id).name
                /\ result[g].library.media_type = ReturnedLib(op[g].id).media_type
                /\ SameMultiset(result[g].library.locations,
                                ReturnedLib(op[g].id).locations)

\* C10 witness: such a get_one has returned a library of a media type other
\* than the default, with two locations.
C10_Witness ==
    \E g \in Tasks :
        /\ Finished(g, "get_one")
        /\ op[g].live
        /\ removals[op[g].id] = 0
        /\ result[g].status = "Ok"
        /\ result[g].library.media_type = "Tv"
        /\ Len(result[g].library.locations) = MaxLocs

\* C11 (transactions are released on return): a task that is not inside a
\* call holds no transaction, whichever way its call returned, and every
\* connection of the pool is either idle or held by the transaction of a
\* call that is still running.
C11_TransactionReleased ==
    /\ \A p \in Tasks : pc[p] \in {"idle", "done"} => ~tx[p]
    /\ idle_conns + Cardinality({ p \in Tasks : tx[p] }) = PoolSize

\* C11 witness: a get_one has returned NotFound and an insert has failed
\* after writing its library row, and the whole pool is idle again.
C11_Witness ==
    \E g \in Tasks, i \in Tasks :
        /\ Finished(g, "get_one") /\ result[g].status = "NotFound"
        /\ Finished(i, "insert") /\ result[i].status = "StorageError"
        /\ lib_id[i] # 0
        /\ idle_conns = PoolSize

\* C13 (get_one on a missing id): the step a get_one takes from its library
\* read while no row has its id ends the call, with NotFound when the
\* statement was answered (StorageError when it was not); the call never
\* goes on to the locations read, and the store is left as it was.
C13_GetOneMissing ==
    [][\A p \in Tasks :
          ( /\ pc[p] = "get_one_library"
            /\ op[p].id \notin DOMAIN library
            /\ pc'[p] # pc[p] )
          => /\ pc'[p] = "done"
             /\ result'[p].status \in {"NotFound", "StorageError"}
             /\ result'[p].library = NoLibrary
             /\ store' = store]_vars

\* C13 witness: a get_one of an id that was inserted and then deleted has
\* returned NotFound while another library is still stored.
C13_Witness ==
    \E p \in Tasks :
        /\ Finished(p, "get_one") /\ result[p].status = "NotFound"
        /\ op[p].id \in ReturnedIds /\ removals[op[p].id] > 0
        /\ DOMAIN library # {}

\* the tasks whose current or last call is an insert that has created its
\* library row
Inserters == { p \in Tasks : op[p].kind = "insert" /\ lib_id[p] # 0 }

\* C18 (concurrent inserts do not mix): inserts hold distinct ids; the id an
\* insert holds (and returns) is that of the row it created; the location
\* rows bound to that id are exactly the locations this call has written so
\* far, in order, and none once the row has been deleted.
C18_InsertsDoNotMix ==
    /\ \A p \in Inserters, q \in Inserters : p # q => lib_id[p] # lib_id[q]
    /\ \A p \in Inserters :
         /\ lib_id[p] \in DOMAIN library
              => /\ library[lib_id[p]] = LibraryRow(op[p].self)
                 /\ SelectLocations(indexed_paths, lib_id[p])
                      = SubSeq(op[p].self.locations, 1, next_loc[p] - 1)
         /\ lib_id[p] \notin DOMAIN library
              => SelectLocations(indexed_paths, lib_id[p]) = << >>
         /\ (pc[p] = "done" /\ result[p].status = "Ok")
              => result[p].num = lib_id[p]

\* C18 witness: an insert that created its row second has returned its id
\* while the insert that created its row first is still between its two
\* location writes, each library having its own rows.
C18_Witness ==
    \E p \in Inserters, q \in Inserters :
        /\ p # q /\ op[p].self # op[q].self
        /\ Finished(p, "insert") /\ result[p].status = "Ok"
        /\ next_loc[p] > 1
        /\ lib_id[q] < lib_id[p]
        /\ pc[q] = "insert_location" /\ next_loc[q] = 2
        /\ {lib_id[p], lib_id[q]} \subseteq DOMAIN library

\* C12 (degrade-to-empty list): a get_all always returns a Vec (status Ok),
\* and the empty one when the backend failed its read; a get_locations,
\* get_one, delete or insert that met a backend failure returns the error
\* and carries no id, count, library or rows.
C12_DegradeToEmpty ==
    [][\A p \in Tasks :
          (pc[p] \in InFlight /\ pc'[p] = "done")
          => /\ op[p].kind = "get_all" => result'[p].status = "Ok"
             /\ failed'[p] =>
                  IF op[p].kind = "get_all"
                    THEN result'[p] = MkRowsResult("Ok", << >>)
                    ELSE /\ result'[p].status = "StorageError"
                         /\ result'[p].num = 0
                         /\ result'[p].library = NoLibrary
                         /\ result'[p].rows = << >>]_vars

\* C12 witness: with a library stored and never removed, a get_all whose
\* read failed has returned the empty Vec and a get_locations whose read
\* failed has returned the error.
C12_Witness ==
    \E p \in Tasks, q \in Tasks :
        /\ Finished(p, "get_all") /\ failed[p]
        /\ result[p] = MkRowsResult("Ok", << >>)
        /\ Finished(q, "get_locations") /\ failed[q]
        /\ result[q].status = "StorageError"
        /\ DOMAIN library # {}
        /\ \A i \in Ids : removals[i] = 0

\* C14 (list content): a get_all whose read was answered returns, for every
\* library row, exactly one entry with the row's id; the entry has the
\* row's name, the media type whose token the row stores, and no locations;
\* there is no other entry.
C14_ListContent ==
    [][\A p \in Tasks :
          (pc[p] = "get_all_execute" /\ pc'[p] = "done" /\ ~failed'[p])
          => LET rows == result'[p].rows IN
               /\ result'[p].status = "Ok"
               /\ Len(rows) = Cardinality(DOMAIN library)
               /\ \A i \in DOMAIN library :
                    /\ Cardinality({ k \in 1..Len(rows) : rows[k].id = i }) = 1
                    /\ \A k \in 1..Len(rows) :
                         rows[k].id = i
                         => /\ rows[k].name = library[i].name
                            /\ rows[k].media_type \in MediaType
                            /\ Display(rows[k].media_type) = library[i].media_type
               /\ \A k \in 1..Len(rows) : rows[k].locations = << >>]_vars

\* C14 witness: a get_all has returned the two stored libraries, one of them
\* of type Tv, both owning location rows.
C14_Witness ==
    \E p \in Tasks :
        /\ Finished(p, "get_all") /\ ~failed[p]
        /\ Len(result[p].rows) = 2
        /\ { result[p].rows[k].id : k \in 1..2 } = DOMAIN library
        /\ \E k \in 1..2 : result[p].rows[k].media_type = "Tv"
        /\ \A k \in 1..2 :
             SelectLocations(indexed_paths, result[p].rows[k].id) # << >>

\* the number of location rows that bind path x to library id
Bound(paths, id, x) ==
    Cardinality({ i \in 1..Len(paths) :
                    paths[i].library_id = id /\ paths[i].location = x })

\* C15 (get_locations): a get_locations(id) whose read was answered returns
\* Ok with each path as many times as there are location rows that bind it
\* to id, hence the empty Vec when there are none.
C15_GetLocations ==
    [][\A p \in Tasks :
          (pc[p] = "get_locations_execute" /\ pc'[p] = "done" /\ ~failed'[p])
          => LET rows == result'[p].rows IN
               /\ result'[p].status = "Ok"
               /\ \A x \in { rows[k] : k \in 1..Len(rows) }
                           \cup { indexed_paths[i].location :
                                    i \in 1..Len(indexed_paths) } :
                    Occurrences(rows, x) = Bound(indexed_paths, op[p].id, x)]_vars

\* C15 witness: one get_locations has returned Ok and no path, another has
\* returned the paths of its library while the other library owns location
\* rows too.
C15_Witness ==
    \E p \in Tasks, q \in Tasks :
        /\ Finished(p, "get_locations") /\ result[p].status = "Ok"
        /\ result[p].rows # << >>
        /\ result[p].rows = SelectLocations(indexed_paths, op[p].id)
        /\ Len(result[p].rows) < Len(indexed_paths)
        /\ Finished(q, "get_locations") /\ result[q].status = "Ok"
        /\ result[q].rows = << >>

\* C16 (media type round trip): an encoded value has the token "movie",
\* "tv" or "episode" of its variant, which is its Display rendering, and
\* decoding that token gives the value back; decoding "movie", "tv",
\* "episode" gives Movie, Tv, Episode, and any other token a decode error.
C16_MediaTypeRoundTrip ==
    /\ media_in # NoMedia
         => /\ media_in = "Movie" => wire = "movie"
            /\ media_in = "Tv" => wire = "tv"
            /\ media_in = "Episode" => wire = "episode"
            /\ wire = Display(media_in)
            /\ media_out # NoMedia => media_out = media_in
    /\ media_out # NoMedia
         => /\ wire = "movie" => media_out = "Movie"
            /\ wire = "tv" => media_out = "Tv"
            /\ wire = "episode" => media_out = "Episode"
            /\ wire \notin {"movie", "tv", "episode"} => media_out = "DecodeError"

\* C16 witness: Tv has been encoded to "tv" and decoded back to Tv.
C16_Witness == media_in = "Tv" /\ wire = "tv" /\ media_out = "Tv"

\* C17 (event serialization): the payload of a serialized message is one
\* flat object of exactly the members id and type, id being the message's
\* id and type the name of its event type; no message of another id or
\* event type has this payload, and every message has a payload.
C17_EventSerialization ==
    /\ payload # NoPayload
         => /\ Len(payload) = 2
            /\ Keys(payload) = {"id", "type"}
            /\ Member(payload, "id") = message.id
            /\ Member(payload, "type") = message.event_type
            /\ message.event_type \in PushEventType
            /\ \A id \in MessageIds, et \in PushEventType :
                 Serialize(MkMessage(id, et)) = payload
                     => MkMessage(id, et) = message
    /\ (message # NoMessage /\ payload = NoPayload) => ENABLED SerializeMessage

\* C17 witness: Message { id: 7, event_type: EventNewLibrary } serialized.
C17_Witness ==
    /\ message = MkMessage(7, "EventNewLibrary")
    /\ payload = << << "id", 7 >>, << "type", "EventNewLibrary" >> >>

\* C19 (no pool starvation): in no state is every connection of the pool
\* held by the open transaction of a get_one or insert that stands before
\* a statement for which it needs a further connection of the pool.
C19_NoPoolStarvation ==
    ~ ( /\ idle_conns = 0
        /\ \E p \in Tasks : tx[p]
        /\ \A p \in Tasks : tx[p] => pc[p] \in StatementPcs )

====
